---- MODULE Spec2Model ----
(***************************************************************************)
(* Model of the BX toolchain of the repository:                            *)
(*   Labs1/bxc.py          - decoder of the tagged JSON AST                *)
(*   Labs2/bxc-skeleton.py - maximal munch (AST -> TAC) and TAC.tojson     *)
(*   Labs1/tac2arm.py      - CodeEmitter (TAC -> AArch64 assembly)         *)
(* Python strings are TLA+ strings, Python lists are sequences, an         *)
(* Optional[str] is a sequence of length 0 (None) or 1.                    *)
(***************************************************************************)
EXTENDS Integers, Sequences, FiniteSets, TLC

VARIABLES
    counter,    \* MM._counter
    tac,        \* MM._tac : sequence of TAC instructions
    mvars,      \* MM._vars : variable name -> temporary
    prgm,       \* the statements lowered so far (the Program given to for_program)
    temps,      \* CodeEmitter._temps : temporary -> slot index
    asm,        \* CodeEmitter._asm : sequence of assembly lines
    refs,       \* history of the calls of CodeEmitter._temp : <<temporary, address>>
    done,       \* the interchange instructions the emitter has been called on
    err,        \* the exception that ended the emitter ("none" while it runs)
    aout,       \* the lines returned by CodeEmitter.code() (<<>> before the call)
    stdout,     \* what tac2arm's _main has printed
    regs,       \* machine registers while the emitted code executes
    mem,        \* machine memory: frame slot index -> value
    pc,         \* index of the next assembly line to execute (0: not started)
    mem0,       \* the memory when the emitted code was entered
    sp0,        \* the stack pointer when the emitted code was entered
    doc,        \* the shape of the JSON document handed to the decoder
    outcome     \* what bxprogram_of_json returned or raised (exc "pending" before)

vars == <<counter, tac, mvars, prgm, temps, asm, refs, done, err, aout, stdout,
          regs, mem, pc, mem0, sp0, doc, outcome>>

mmVars   == <<counter, tac, mvars, prgm>>
emitVars == <<temps, asm, refs, done, err, aout, stdout>>
runVars  == <<regs, mem, pc, mem0, sp0>>
decVars  == <<doc, outcome>>

(***************************************************************************)
(* Bounds of the model.                                                    *)
(***************************************************************************)
MaxStmts == 3       \* statements of a Program
MaxInstrs == 3      \* instructions handed to the emitter in SpecEmit
MaxTemp == 2        \* highest temporary number of the instructions given to the emitter directly
XBits == 3          \* width of a data word of the machine (64 on the target)
MaxFrameInstrs == 2 \* instructions handed to the emitter in SpecFrame

(***************************************************************************)
(* str(n) and f'%{n}' for the naturals.                                    *)
(***************************************************************************)
Digit == <<"0", "1", "2", "3", "4", "5", "6", "7", "8", "9">>

RECURSIVE ToStr(_)
ToStr(n) == IF n < 0 THEN "-" \o ToStr(-n)
            ELSE IF n < 10 THEN Digit[n + 1]
            ELSE ToStr(n \div 10) \o Digit[(n % 10) + 1]

Temp(n) == "%" \o ToStr(n)

(***************************************************************************)
(* Abstract syntax (Labs2/bxc-skeleton.py).  Every node is a record with   *)
(* the same fields; the fields a variant does not have hold a filler.      *)
(***************************************************************************)
VarExpression(name) ==
    [kind |-> "var", name |-> name, value |-> 0, operator |-> "", arguments |-> <<>>]

IntExpression(value) ==
    [kind |-> "int", name |-> "", value |-> value, operator |-> "", arguments |-> <<>>]

OpAppExpression(operator, arguments) ==
    [kind |-> "opapp", name |-> "", value |-> 0, operator |-> operator,
     arguments |-> arguments]

VarDeclStatement(name, init) == [kind |-> "vardecl", name |-> name, expr |-> init]

AssignStatement(lhs, rhs) == [kind |-> "assign", name |-> lhs, expr |-> rhs]

PrintStatement(value) == [kind |-> "print", name |-> "", expr |-> value]

OPCODES ==
    [op \in {"opposite", "addition", "subtraction", "multiplication", "division",
             "modulus", "bitwise-negation", "bitwise-and", "bitwise-or",
             "bitwise-xor", "logical-shift-left", "logical-shift-right"} |->
        CASE op = "opposite"            -> "neg"
          [] op = "addition"            -> "add"
          [] op = "subtraction"         -> "sub"
          [] op = "multiplication"      -> "mul"
          [] op = "division"            -> "div"
          [] op = "modulus"             -> "mod"
          [] op = "bitwise-negation"    -> "not"
          [] op = "bitwise-and"         -> "and"
          [] op = "bitwise-or"          -> "or"
          [] op = "bitwise-xor"         -> "xor"
          [] op = "logical-shift-left"  -> "shl"
          [] op = "logical-shift-right" -> "shr"]

TAC(opcode, arguments, result) ==
    [opcode |-> opcode, arguments |-> arguments, result |-> result]

None == <<>>

(***************************************************************************)
(* Maximal munch.  The state of an MM object is the record                 *)
(* [counter, tac, vars]; for_expression also carries the returned target.  *)
(***************************************************************************)
BrokenFresh(m) == [m EXCEPT !.target = Temp(m.counter + 1)]

fresh_temporary(m) ==
    [m EXCEPT !.counter = m.counter + 1, !.target = Temp(m.counter + 1)]

push(m, opcode, arguments, result) ==
    [m EXCEPT !.tac = Append(m.tac, TAC(opcode, arguments, result))]

RECURSIVE for_expression(_, _)
RECURSIVE for_arguments(_, _, _)

\* [self.for_expression(e) for e in arguments]: left to right, the targets collected
for_arguments(m, arguments, acc) ==
    IF arguments = <<>> THEN [m EXCEPT !.list = acc]
    ELSE LET m1 == for_expression(m, Head(arguments))
         IN  for_arguments(m1, Tail(arguments), Append(acc, m1.target))

\* for_expression with the target of an OpApp allocated after its arguments
ForExpressionArgsFirst(m, expr) ==
    CASE expr.kind = "var" ->
            [m EXCEPT !.target = m.vars[expr.name]]
      [] expr.kind = "int" ->
            LET m1 == fresh_temporary(m)
            IN  push(m1, "const", <<ToStr(expr.value)>>, <<m1.target>>)
      [] expr.kind = "opapp" ->
            LET m1 == for_arguments(m, expr.arguments, <<>>)
                m2 == fresh_temporary(m1)
            IN  push(m2, OPCODES[expr.operator], m1.list, <<m2.target>>)

for_expression(m, expr) ==
    CASE expr.kind = "var" ->
            [m EXCEPT !.target = m.vars[expr.name]]
      [] expr.kind = "int" ->
            LET m1 == fresh_temporary(m)
            IN  push(m1, "const", <<ToStr(expr.value)>>, <<m1.target>>)
      [] expr.kind = "opapp" ->
            LET m1 == fresh_temporary(m)
                target == m1.target
                m2 == for_arguments(m1, expr.arguments, <<>>)
            IN  [push(m2, OPCODES[expr.operator], m2.list, <<target>>)
                    EXCEPT !.target = target]

for_statement(m, stmt) ==
    CASE stmt.kind = "vardecl" ->
            LET m1 == fresh_temporary(m)
                m2 == [m1 EXCEPT !.vars = [n \in DOMAIN m1.vars \cup {stmt.name} |->
                                    IF n = stmt.name THEN m1.target ELSE m1.vars[n]]]
            IN  push(m2, "const", <<"0", m2.vars[stmt.name]>>, None)
      [] stmt.kind = "assign" ->
            LET m1 == for_expression(m, stmt.expr)
            IN  push(m1, "copy", <<m1.target>>, <<m1.vars[stmt.name]>>)
      [] stmt.kind = "print" ->
            LET m1 == for_expression(m, stmt.expr)
            IN  push(m1, "print", <<m1.target>>, None)

tojson(x) == [opcode |-> x.opcode, args |-> x.arguments, result |-> x.result]

(***************************************************************************)
(* CodeEmitter (Labs1/tac2arm.py).  The state of an emitter is the record  *)
(* [temps, asm, refs, ret]: ret carries the value a method returns.  An    *)
(* assembly line is the sequence <<opcode, arg, ...>> given to _emit.      *)
(***************************************************************************)
Addr(index) == "[SP, #" \o ToStr(8 * index) \o "]"

Len_(f) == Cardinality(DOMAIN f)

\* a setdefault that overwrites the entry of a key the dict already holds
SetDefaultOverwrite(d, key, value) ==
    [k \in DOMAIN d \cup {key} |-> IF k = key THEN value ELSE d[k]]

\* dict.setdefault(key, value): the dict after the call
setdefault(d, key, value) ==
    IF key \in DOMAIN d THEN d
    ELSE [k \in DOMAIN d \cup {key} |-> IF k = key THEN value ELSE d[k]]

_temp(e, temp) ==
    LET ts == setdefault(e.temps, temp, Len_(e.temps))
    IN  [e EXCEPT !.temps = ts,
                  !.refs = Append(e.refs, <<temp, Addr(ts[temp])>>),
                  !.ret = Addr(ts[temp])]

_emit(e, line) == [e EXCEPT !.asm = Append(e.asm, line)]

_emit_const(e, ctt, dst) ==
    LET e1 == _emit(e, <<"mov", "X2", "#" \o ctt>>)
        e2 == _temp(e1, dst)
    IN  _emit(e2, <<"str", "X2", e2.ret>>)

_emit_copy(e, src, dst) ==
    LET e1 == _temp(e, src)
        e2 == _emit(e1, <<"ldr", "X2", e1.ret>>)
        e3 == _temp(e2, dst)
    IN  _emit(e3, <<"str", "X2", e3.ret>>)

_emit_alu2(e, opcode, op1, op2, dst) ==
    LET e1 == _temp(e, op1)
        e2 == _emit(e1, <<"ldr", "X0", e1.ret>>)
        e3 == _temp(e2, op2)
        e4 == _emit(e3, <<"ldr", "X1", e3.ret>>)
        e5 == _emit(e4, <<opcode, "X2", "X0", "X1">>)
        e6 == _temp(e5, dst)
    IN  _emit(e6, <<"str", "X2", e6.ret>>)

\* _emit_mod with the operands of its last subtraction exchanged
EmitModReversed(e, op1, op2, dst) ==
    LET e1 == _temp(e, op1)
        e2 == _emit(e1, <<"ldr", "X0", e1.ret>>)
        e3 == _temp(e2, op2)
        e4 == _emit(e3, <<"ldr", "X1", e3.ret>>)
        e5 == _emit(e4, <<"sdiv", "X2", "X0", "X1">>)
        e6 == _emit(e5, <<"mul", "X2", "X2", "X1">>)
        e7 == _emit(e6, <<"sub", "X2", "X2", "X0">>)
        e8 == _temp(e7, dst)
    IN  _emit(e8, <<"str", "X2", e8.ret>>)

_emit_mod(e, op1, op2, dst) ==
    LET e1 == _temp(e, op1)
        e2 == _emit(e1, <<"ldr", "X0", e1.ret>>)
        e3 == _temp(e2, op2)
        e4 == _emit(e3, <<"ldr", "X1", e3.ret>>)
        e5 == _emit(e4, <<"sdiv", "X2", "X0", "X1">>)
        e6 == _emit(e5, <<"mul", "X2", "X2", "X1">>)
        e7 == _emit(e6, <<"sub", "X2", "X0", "X2">>)
        e8 == _temp(e7, dst)
    IN  _emit(e8, <<"str", "X2", e8.ret>>)

\* _emit_print pushing the value by 8 bytes instead of 16
EmitPrintPush8(e, arg) ==
    LET e1 == _temp(e, arg)
        e2 == _emit(e1, <<"ldr", "X2", e1.ret>>)
        e3 == _emit(e2, <<"stp", "X29", "X30", "[SP, #-16]!">>)
        e4 == _emit(e3, <<"str", "X2", "[SP, #-8]!">>)
        e5 == _emit(e4, <<"adrp", "X0", "l._dformat@PAGE">>)
        e6 == _emit(e5, <<"add", "X0", "X0", "l._dformat@PAGEOFF">>)
        e7 == _emit(e6, <<"bl", "_printf">>)
        e8 == _emit(e7, <<"add", "SP", "SP", "#16">>)
    IN  _emit(e8, <<"ldp", "X29", "X30", "[SP]", "#16">>)

_emit_print(e, arg) ==
    LET e1 == _temp(e, arg)
        e2 == _emit(e1, <<"ldr", "X2", e1.ret>>)
        e3 == _emit(e2, <<"stp", "X29", "X30", "[SP, #-16]!">>)
        e4 == _emit(e3, <<"str", "X2", "[SP, #-16]!">>)
        e5 == _emit(e4, <<"adrp", "X0", "l._dformat@PAGE">>)
        e6 == _emit(e5, <<"add", "X0", "X0", "l._dformat@PAGEOFF">>)
        e7 == _emit(e6, <<"bl", "_printf">>)
        e8 == _emit(e7, <<"add", "SP", "SP", "#16">>)
    IN  _emit(e8, <<"ldp", "X29", "X30", "[SP]", "#16">>)

\* the target mnemonic of the handlers that delegate to _emit_alu2
ALU2 ==
    [op \in {"add", "sub", "mul", "div", "and", "or", "xor", "shl", "shr"} |->
        CASE op = "add" -> "add"
          [] op = "sub" -> "sub"
          [] op = "mul" -> "mul"
          [] op = "div" -> "sdiv"
          [] op = "and" -> "and"
          [] op = "or"  -> "orr"
          [] op = "xor" -> "eor"
          [] op = "shl" -> "lsl"
          [] op = "shr" -> "lsr"]

\* the names X for which CodeEmitter has an attribute _emit_X, with the number
\* of positional parameters of the method
Handlers ==
    [op \in DOMAIN ALU2 \cup {"const", "copy", "alu2", "mod", "print"} |->
        CASE op = "const" -> 2
          [] op = "copy"  -> 2
          [] op = "alu2"  -> 4
          [] op = "print" -> 1
          [] OTHER        -> 3]

\* CodeEmitter.__call__: the outcome is the new emitter state and the exception
Call(e, instr) ==
    LET opcode == instr.opcode
        args   == instr.args \o instr.result
    IN  IF opcode \notin DOMAIN Handlers
          THEN [e |-> e, exc |-> "AttributeError"]
        ELSE IF Len(args) # Handlers[opcode]
          THEN [e |-> e, exc |-> "TypeError"]
        ELSE [exc |-> "none",
              e |-> CASE opcode = "const" -> _emit_const(e, args[1], args[2])
                      [] opcode = "copy"  -> _emit_copy(e, args[1], args[2])
                      [] opcode = "alu2"  -> _emit_alu2(e, args[1], args[2], args[3], args[4])
                      [] opcode = "mod"   -> _emit_mod(e, args[1], args[2], args[3])
                      [] opcode = "print" -> _emit_print(e, args[1])
                      [] OTHER -> _emit_alu2(e, ALU2[opcode], args[1], args[2], args[3])]

\* the instruction as __call__ hands it to its handler: the result, when there
\* is one, joins the arguments, and the handler takes its last parameter as the
\* destination (every handler but _emit_print has one)
decode(d) ==
    LET flat == d.args \o d.result
    IN  IF d.opcode \notin DOMAIN Handlers THEN TAC("AttributeError", <<>>, None)
        ELSE IF Len(flat) # Handlers[d.opcode] THEN TAC("TypeError", <<>>, None)
        ELSE IF d.opcode = "print" THEN TAC(d.opcode, flat, None)
        ELSE TAC(d.opcode, SubSeq(flat, 1, Len(flat) - 1), <<flat[Len(flat)]>>)

\* code() without the padding of an odd number of slots
CodeUnpadded(e) ==
    LET nvars == Len_(e.temps)
    IN  <<<<"sub", "SP", "SP", "#" \o ToStr(8 * nvars)>>>>
        \o e.asm
        \o <<<<"add", "SP", "SP", "#" \o ToStr(8 * nvars)>>>>

\* CodeEmitter.code(): the lines joined by __str__
code(e) ==
    LET n     == Len_(e.temps)
        nvars == n + (n % 2)
    IN  <<<<"sub", "SP", "SP", "#" \o ToStr(8 * nvars)>>>>
        \o e.asm
        \o <<<<"add", "SP", "SP", "#" \o ToStr(8 * nvars)>>>>

(***************************************************************************)
(* JSON values and the decoder of the AST (Labs1/bxc.py).  A JSON value is *)
(* a record [t, s, n, items, fields] whose t names its Python type; a call *)
(* returns [exc, val]: the exception it raised ("none": it returned val).  *)
(* The decoded nodes are built with the constructors above (the classes of *)
(* Labs1 hold a name as a plain string and VarDecl without initializer).   *)
(***************************************************************************)
JDict(f)  == [t |-> "dict", s |-> "", n |-> 0, items |-> <<>>, fields |-> f]
JList(xs) == [t |-> "list", s |-> "", n |-> 0, items |-> xs, fields |-> <<>>]
JStr(s)   == [t |-> "str", s |-> s, n |-> 0, items |-> <<>>, fields |-> <<>>]
JInt(n)   == [t |-> "int", s |-> "", n |-> n, items |-> <<>>, fields |-> <<>>]

Return(v) == [exc |-> "none", val |-> v]
Raise(x)  == [exc |-> x, val |-> <<>>]

\* except IndexError: raise InvalidBXJSon
ExceptIndexError(r) == IF r.exc = "IndexError" THEN Raise("InvalidBXJSon") ELSE r

\* j[key] for a string key
GetKey(j, key) ==
    CASE j.t = "dict" -> IF key \in DOMAIN j.fields THEN Return(j.fields[key])
                         ELSE Raise("KeyError")
      [] OTHER -> Raise("TypeError")

\* j[i] for an integer i >= 0 (the documents of the model hold no string where
\* a node is indexed)
GetIdx(j, i) ==
    CASE j.t = "list" -> IF i < Len(j.items) THEN Return(j.items[i + 1])
                         ELSE Raise("IndexError")
      [] j.t = "dict" -> Raise("KeyError")
      [] j.t = "int"  -> Raise("TypeError")

\* the words (\w+) of the tags of the model
TagWords == {"expression", "statement", "name", "lvalue", "var", "int", "uniop",
             "binop", "call", "vardecl", "assign", "eval", "while"}

\* re.search(r'^<(\w+)(?::(\w+))?>$', tag): group 2 is None or a word
parse_tag(tag) ==
    IF tag.t # "str" THEN Raise("TypeError")
    ELSE IF \E c \in TagWords : tag.s = "<" \o c \o ">"
      THEN Return([clazz |-> CHOOSE c \in TagWords : tag.s = "<" \o c \o ">",
                   tag |-> None])
    ELSE IF \E c, k \in TagWords : tag.s = "<" \o c \o ":" \o k \o ">"
      THEN LET ck == CHOOSE ck \in TagWords \X TagWords :
                        tag.s = "<" \o ck[1] \o ":" \o ck[2] \o ">"
           IN  Return([clazz |-> ck[1], tag |-> <<ck[2]>>])
    ELSE Raise("InvalidBXJSon")

\* one entry (name, etype) of a schema; etype is a class of tags or "int"
CheckField(data, entry) ==
    IF entry[1] \notin DOMAIN data.fields THEN Raise("InvalidBXJSon")
    ELSE LET value == data.fields[entry[1]]
         IN  IF entry[2] = "int"
               THEN IF value.t = "int" THEN Return(<<>>) ELSE Raise("InvalidBXJSon")
             ELSE IF value.t # "list" THEN Raise("InvalidBXJSon")
             ELSE IF Len(value.items) # 2 THEN Raise("InvalidBXJSon")
             ELSE IF value.items[1].t # "str" THEN Raise("InvalidBXJSon")
             ELSE LET r == parse_tag(value.items[1])
                  IN  IF r.exc # "none" THEN r
                      ELSE IF r.val.clazz # entry[2] THEN Raise("InvalidBXJSon")
                      ELSE Return(<<>>)

RECURSIVE CheckFields(_, _)
CheckFields(data, schema) ==
    IF schema = <<>> THEN Return(<<>>)
    ELSE LET r == CheckField(data, Head(schema))
         IN  IF r.exc # "none" THEN r ELSE CheckFields(data, Tail(schema))

check_shallow_schema(data, schema) ==
    IF data.t # "dict" THEN Raise("InvalidBXJSon") ELSE CheckFields(data, schema)

\* name[1]['value'] in a try block that catches IndexError
parse_name(name) ==
    LET r1 == GetIdx(name, 1)
    IN  ExceptIndexError(
            IF r1.exc # "none" THEN r1
            ELSE LET r2 == GetKey(r1.val, "value")
                 IN  IF r2.exc # "none" THEN r2 ELSE Return(r2.val.s))

EXPRESSION_VAR_SCHEMA == <<<<"name", "name">>>>
EXPRESSION_INT_SCHEMA == <<<<"value", "int">>>>
EXPRESSION_UNIOP_SCHEMA == <<<<"operator", "name">>, <<"argument", "expression">>>>
EXPRESSION_BINOP_SCHEMA ==
    <<<<"operator", "name">>, <<"left", "expression">>, <<"right", "expression">>>>
STATEMENT_VARDECL_SCHEMA == <<<<"name", "name">>>>
STATEMENT_ASSIGN_SCHEMA == <<<<"lvalue", "lvalue">>, <<"rvalue", "expression">>>>
STATEMENT_EVAL_SCHEMA == <<<<"expression", "expression">>>>

JSON_EXPRESSIONS ==
    [k \in {"var", "int", "uniop", "binop"} |->
        CASE k = "var"   -> EXPRESSION_VAR_SCHEMA
          [] k = "int"   -> EXPRESSION_INT_SCHEMA
          [] k = "uniop" -> EXPRESSION_UNIOP_SCHEMA
          [] k = "binop" -> EXPRESSION_BINOP_SCHEMA]

JSON_STATEMENTS ==
    [k \in {"vardecl", "assign", "eval"} |->
        CASE k = "vardecl" -> STATEMENT_VARDECL_SCHEMA
          [] k = "assign"  -> STATEMENT_ASSIGN_SCHEMA
          [] k = "eval"    -> STATEMENT_EVAL_SCHEMA]

RECURSIVE expression_of_json(_, _)

\* expression_of_json(*x): x is unpacked into the two parameters
ExpressionOf(x) ==
    IF x.t # "list" \/ Len(x.items) # 2 THEN Raise("TypeError")
    ELSE expression_of_json(x.items[1], x.items[2])

expression_var_of_json(data) ==
    LET r == parse_name(data.fields["name"])
    IN  IF r.exc # "none" THEN r ELSE Return(VarExpression(r.val))

expression_int_of_json(data) == Return(IntExpression(data.fields["value"].n))

expression_uniop_of_json(data) ==
    LET r1 == parse_name(data.fields["operator"])
    IN  IF r1.exc # "none" THEN r1
        ELSE LET r2 == ExpressionOf(data.fields["argument"])
             IN  IF r2.exc # "none" THEN r2
                 ELSE Return(OpAppExpression(r1.val, <<r2.val>>))

expression_binop_of_json(data) ==
    LET r1 == parse_name(data.fields["operator"])
    IN  IF r1.exc # "none" THEN r1
        ELSE LET r2 == ExpressionOf(data.fields["left"])
             IN  IF r2.exc # "none" THEN r2
                 ELSE LET r3 == ExpressionOf(data.fields["right"])
                      IN  IF r3.exc # "none" THEN r3
                          ELSE Return(OpAppExpression(r1.val, <<r2.val, r3.val>>))

expression_of_json(tag, data) ==
    LET r == parse_tag(tag)
    IN  IF r.exc # "none" THEN r
        ELSE IF r.val.clazz # "expression" THEN Raise("InvalidBXJSon")
        ELSE IF r.val.tag = None \/ r.val.tag[1] \notin DOMAIN JSON_EXPRESSIONS
          THEN Raise("InvalidBXJSon")
        ELSE LET kind == r.val.tag[1]
                 c == check_shallow_schema(data, JSON_EXPRESSIONS[kind])
             IN  IF c.exc # "none" THEN c
                 ELSE CASE kind = "var"   -> expression_var_of_json(data)
                        [] kind = "int"   -> expression_int_of_json(data)
                        [] kind = "uniop" -> expression_uniop_of_json(data)
                        [] kind = "binop" -> expression_binop_of_json(data)

statement_vardecl_of_json(data) ==
    LET r == parse_name(data.fields["name"])
    IN  IF r.exc # "none" THEN r
        ELSE Return(VarDeclStatement(r.val, IntExpression(0)))

statement_assign_of_json(data) ==
    LET r0 == GetIdx(data.fields["lvalue"], 1)
        r1 == IF r0.exc # "none" THEN r0 ELSE GetKey(r0.val, "name")
        r2 == IF r1.exc # "none" THEN r1 ELSE parse_name(r1.val)
    IN  IF r2.exc # "none" THEN r2
        ELSE LET r3 == ExpressionOf(data.fields["rvalue"])
             IN  IF r3.exc # "none" THEN r3
                 ELSE Return(AssignStatement(r2.val, r3.val))

\* the try block of statement_eval_of_json
EvalGuard(expression) ==
    IF ~(expression.items[1].t = "str" /\ expression.items[1].s = "<expression:call>")
      THEN Raise("InvalidBXJSon")
    ELSE LET r1 == GetKey(expression.items[2], "target")
             r2 == IF r1.exc # "none" THEN r1 ELSE parse_name(r1.val)
         IN  IF r2.exc # "none" THEN r2
             ELSE IF r2.val # "print" THEN Raise("InvalidBXJSon")
             ELSE Return(<<>>)

statement_eval_of_json(data) ==
    LET expression == data.fields["expression"]
        g == ExceptIndexError(EvalGuard(expression))
    IN  IF g.exc # "none" THEN g
        ELSE LET r1 == GetKey(expression.items[2], "arguments")
                 r2 == IF r1.exc # "none" THEN r1 ELSE GetIdx(r1.val, 0)
                 r3 == IF r2.exc # "none" THEN r2
                       ELSE ExpressionOf(r2.val)
             IN  IF r3.exc # "none" THEN r3 ELSE Return(PrintStatement(r3.val))

statement_of_json(tag, data) ==
    LET r == parse_tag(tag)
    IN  IF r.exc # "none" THEN r
        ELSE IF r.val.clazz # "statement" THEN Raise("InvalidBXJSon")
        ELSE IF r.val.tag = None \/ r.val.tag[1] \notin DOMAIN JSON_STATEMENTS
          THEN Raise("InvalidBXJSon")
        ELSE LET kind == r.val.tag[1]
                 c == check_shallow_schema(data, JSON_STATEMENTS[kind])
             IN  IF c.exc # "none" THEN c
                 ELSE CASE kind = "vardecl" -> statement_vardecl_of_json(data)
                        [] kind = "assign"  -> statement_assign_of_json(data)
                        [] kind = "eval"    -> statement_eval_of_json(data)

\* statement_of_json(*x): x is unpacked into the two parameters
StatementOf(x) ==
    IF x.t # "list" \/ Len(x.items) # 2 THEN Raise("TypeError")
    ELSE statement_of_json(x.items[1], x.items[2])

\* list(statement_of_json(*x) for x in body)
RECURSIVE StatementsOf(_, _)
StatementsOf(body, acc) ==
    IF body = <<>> THEN Return(acc)
    ELSE LET r == StatementOf(Head(body))
         IN  IF r.exc # "none" THEN r
             ELSE StatementsOf(Tail(body), Append(acc, r.val))

\* data['ast'][0][1]['body'] in the try block of bxprogram_of_json
BodyOf(data) ==
    LET r1 == GetKey(data, "ast")
        r2 == IF r1.exc # "none" THEN r1 ELSE GetIdx(r1.val, 0)
        r3 == IF r2.exc # "none" THEN r2 ELSE GetIdx(r2.val, 1)
    IN  IF r3.exc # "none" THEN r3 ELSE GetKey(r3.val, "body")

bxprogram_of_json(data) ==
    LET b == ExceptIndexError(BodyOf(data))
    IN  IF b.exc # "none" THEN b
        ELSE IF b.val.t # "list" THEN Raise("TypeError")
        ELSE StatementsOf(b.val.items, <<>>)

(***************************************************************************)
(* The target machine, as far as the emitted lines use it.  A data word is *)
(* a signed integer of XBits bits (two's complement, wrapping); addresses  *)
(* stay far from the ends of the address space and are plain integers.     *)
(* A machine state is the record [regs, mem].                              *)
(***************************************************************************)
Half == 2 ^ (XBits - 1)

Words == (-Half)..(Half - 1)

Wrap(v) == ((v + Half) % (2 * Half)) - Half

Abs(v) == IF v < 0 THEN -v ELSE v

\* SDIV: the quotient rounded towards zero, 0 for a zero divisor
SDiv(a, b) ==
    IF b = 0 THEN 0
    ELSE Wrap((IF (a < 0) = (b < 0) THEN 1 ELSE -1) * (Abs(a) \div Abs(b)))

StackTop == 16 * 4

Offsets == {8 * i : i \in -2..(MaxTemp + 2)}

IsImm(text) == \E n \in Offsets \cup Words : text = "#" \o ToStr(n)

ImmOf(text) == CHOOSE n \in Offsets \cup Words : text = "#" \o ToStr(n)

\* the address of the operand [SP, #n]
Address(m, text) ==
    m.regs["SP"] + (CHOOSE n \in Offsets : text = "[SP, #" \o ToStr(n) \o "]")

\* the value of a register or immediate operand
Value(m, text) == IF IsImm(text) THEN ImmOf(text) ELSE m.regs[text]

SetReg(m, r, v) == [m EXCEPT !.regs[r] = IF r = "SP" THEN v ELSE Wrap(v)]

\* what the stack may hold at entry and what _printf may leave in a register
Junk == {0, -1}

\* the operand [SP, #n]! (pre-index: SP moves by n before the access)
IsPre(text) == \E n \in Offsets : text = "[SP, #" \o ToStr(n) \o "]!"

PreOf(text) == CHOOSE n \in Offsets : text = "[SP, #" \o ToStr(n) \o "]!"

\* the two halves of the address of the format string
SymValue(text) == IF text = "l._dformat@PAGE" THEN 0 ELSE 1

IsSym(text) == text \in {"l._dformat@PAGE", "l._dformat@PAGEOFF"}

Operand(m, text) == IF IsSym(text) THEN SymValue(text) ELSE Value(m, text)

Store(m, a, v) ==
    [m EXCEPT !.mem = [x \in DOMAIN m.mem \cup {a} |-> IF x = a THEN v ELSE m.mem[x]]]

\* the machine after one line of the emitted code
Exec(m, line) ==
    CASE line[1] = "ldr"  -> SetReg(m, line[2], m.mem[Address(m, line[3])])
      [] line[1] = "str"  ->
            IF IsPre(line[3])
            THEN LET m1 == SetReg(m, "SP", m.regs["SP"] + PreOf(line[3]))
                 IN  Store(m1, m1.regs["SP"], m.regs[line[2]])
            ELSE Store(m, Address(m, line[3]), m.regs[line[2]])
      [] line[1] = "stp"  ->
            LET m1 == SetReg(m, "SP", m.regs["SP"] + PreOf(line[4]))
            IN  Store(Store(m1, m1.regs["SP"], m.regs[line[2]]),
                      m1.regs["SP"] + 8, m.regs[line[3]])
      [] line[1] = "ldp"  ->
            LET sp == m.regs["SP"]
                m1 == SetReg(SetReg(m, line[2], m.mem[sp]), line[3], m.mem[sp + 8])
            IN  SetReg(m1, "SP", sp + ImmOf(line[5]))
      [] line[1] = "adrp" -> SetReg(m, line[2], SymValue(line[3]))
      [] line[1] = "bl"   -> m
      [] line[1] = "mov"  -> SetReg(m, line[2], Value(m, line[3]))
      [] line[1] = "add"  -> SetReg(m, line[2], Value(m, line[3]) + Operand(m, line[4]))
      [] line[1] = "sub"  -> SetReg(m, line[2], Value(m, line[3]) - Value(m, line[4]))
      [] line[1] = "mul"  -> SetReg(m, line[2], Value(m, line[3]) * Value(m, line[4]))
      [] line[1] = "sdiv" -> SetReg(m, line[2], SDiv(Value(m, line[3]), Value(m, line[4])))

(***************************************************************************)
(* Inputs of the model.                                                    *)
(***************************************************************************)
VarNames == {"x", "y"}

X == VarExpression("x")
Y == VarExpression("y")
One == IntExpression(1)

Expressions ==
    {X, Y, One}
    \cup {OpAppExpression(op, <<a>>) : op \in {"opposite", "bitwise-negation"},
                                       a \in {X, One}}
    \cup {OpAppExpression(op, a) : op \in {"addition", "modulus"},
                                   a \in {<<One, X>>, <<X, Y>>}}
    \cup {OpAppExpression("subtraction",
            <<OpAppExpression("opposite", <<One>>),
              OpAppExpression("modulus", <<X, One>>)>>)}

Statements ==
    {VarDeclStatement(n, IntExpression(0)) : n \in VarNames}
    \cup {AssignStatement(n, e) : n \in VarNames, e \in Expressions}
    \cup {PrintStatement(e) : e \in Expressions}

RECURSIVE NamesOf(_)
NamesOf(expr) ==
    CASE expr.kind = "var" -> {expr.name}
      [] expr.kind = "int" -> {}
      [] expr.kind = "opapp" ->
            UNION {NamesOf(expr.arguments[i]) : i \in DOMAIN expr.arguments}

\* the Program contract: a statement reads and writes declared variables only
Declared(stmt) ==
    CASE stmt.kind = "vardecl" -> TRUE
      [] stmt.kind = "assign"  -> NamesOf(stmt.expr) \cup {stmt.name} \subseteq DOMAIN mvars
      [] stmt.kind = "print"   -> NamesOf(stmt.expr) \subseteq DOMAIN mvars

T0 == Temp(0)
T1 == Temp(1)
T2 == Temp(2)

Instr(opcode, args, result) == [opcode |-> opcode, args |-> args, result |-> result]

\* interchange instructions handed to the emitter in SpecEmit
Instrs ==
    {Instr("const", <<"7">>, <<t>>) : t \in {T0, T1, T2}}
    \cup {Instr("const", <<"0", T1>>, None)}
    \cup {Instr("copy", <<a[1]>>, <<a[2]>>) : a \in {<<T0, T1>>, <<T2, T0>>}}
    \cup {Instr(op, <<a[1], a[2]>>, <<a[3]>>) :
                op \in {"add", "mod"}, a \in {<<T0, T1, T2>>, <<T2, T1, T1>>}}
    \cup {Instr("print", <<t>>, None) : t \in {T0, T2}}
    \cup {Instr(op, <<T0>>, <<T1>>) : op \in {"neg", "not"}}
    \cup {Instr("alu2", <<"add", T0, T1>>, <<T2>>),
          Instr("frobnicate", <<T0>>, <<T1>>),
          Instr("add", <<T0>>, <<T1>>)}

\* the immediate of the prologue and of the epilogue
Imm(text) ==
    LET range == 0..(8 * (Len_(temps) + 2))
    IN  IF \E n \in range : text = "#" \o ToStr(n)
        THEN CHOOSE n \in range : text = "#" \o ToStr(n)
        ELSE -1

Reserved == Imm(aout[1][4])

Released == Imm(aout[Len(aout)][4])

\* JSON documents handed to the decoder in SpecDecode
Node(tag, payload) == JList(<<JStr(tag), payload>>)

NoFields == [k \in {} |-> JInt(0)]

NameNode(v) == Node("<name>", JDict("value" :> JStr(v)))

NameNoValue == Node("<name>", JDict(NoFields))

EInt(n) == Node("<expression:int>", JDict("value" :> JInt(n)))

EVar(name) == Node("<expression:var>", JDict("name" :> name))

EUni(op, e) == Node("<expression:uniop>", JDict(("operator" :> NameNode(op)) @@ ("argument" :> e)))

EBin(op, l, r) ==
    Node("<expression:binop>",
         JDict(("operator" :> NameNode(op)) @@ ("left" :> l) @@ ("right" :> r)))

ECall(target, args) ==
    Node("<expression:call>", JDict(("target" :> target) @@ ("arguments" :> JList(args))))

SVarDecl(name) == Node("<statement:vardecl>", JDict("name" :> name))

SAssign(name, e) ==
    Node("<statement:assign>",
         JDict(("lvalue" :> Node("<lvalue:var>", JDict("name" :> name))) @@ ("rvalue" :> e)))

SEval(e) == Node("<statement:eval>", JDict("expression" :> e))

DocOf(body) == JDict("ast" :> JList(<<Node("<program>", JDict("body" :> JList(body)))>>))

GoodExprs ==
    {EInt(1), EVar(NameNode("x")), EUni("opposite", EInt(1)),
     EBin("addition", EVar(NameNode("x")), EInt(2))}

\* expressions that break the documented shape: an unknown kind, a malformed
\* tag, a missing field, a name node without value
BadExprs ==
    {ECall(NameNode("f"), <<>>), Node("expression:int", JDict("value" :> JInt(1))),
     Node("<expression:int>", JDict(NoFields)), EVar(NameNoValue),
     EUni("opposite", Node("<expression:int>", JDict("value" :> JStr("1"))))}

GoodStmts ==
    {SVarDecl(NameNode("x"))}
    \cup {SAssign(NameNode("x"), e) : e \in GoodExprs}
    \cup {SEval(ECall(NameNode("print"), <<e>>)) : e \in GoodExprs}

\* eval nodes other than a call of print with one argument
OtherEvals ==
    {SEval(ECall(NameNode(f), <<e>>)) : f \in {"printf", "f"}, e \in {EInt(1)}}
    \cup {SEval(ECall(NameNode("print"), a)) :
                a \in {<<>>, <<EInt(1), EInt(2)>>, <<EVar(NameNode("x")), EInt(1), EInt(2)>>}}
    \cup {SEval(e) : e \in GoodExprs}

BadStmts ==
    {SVarDecl(NameNoValue), SVarDecl(EInt(1)),
     Node("<statement:vardecl>", JDict(NoFields)),
     Node("<statement:while>", JDict(NoFields)),
     Node("<statement>", JDict("name" :> NameNode("x"))),
     Node("<expression:int>", JDict("value" :> JInt(1))),
     Node("statement:vardecl", JDict("name" :> NameNode("x"))),
     Node("<statement:vardecl", JDict("name" :> NameNode("x"))),
     SAssign(NameNoValue, EInt(1)),
     SAssign(JList(<<JStr("<name>")>>), EInt(1))}
    \cup {SAssign(NameNode("x"), e) : e \in BadExprs}
    \cup {SEval(ECall(NameNode("print"), <<e>>)) : e \in BadExprs}
    \cup {SEval(ECall(NameNoValue, <<EInt(1)>>))}

\* documents of the documented shape
ValidDocs ==
    {DocOf(<<>>)}
    \cup {DocOf(<<s>>) : s \in GoodStmts}
    \cup {DocOf(<<SVarDecl(NameNode("x")), s>>) : s \in GoodStmts}

\* documents that break the documented shape
InvalidDocs ==
    {JDict(NoFields),
     JDict("ast" :> JList(<<>>)),
     JDict("ast" :> JList(<<JList(<<JStr("<program>")>>)>>)),
     JDict("ast" :> JList(<<Node("<program>", JDict(NoFields))>>)),
     JDict("body" :> JList(<<>>))}
    \cup {DocOf(<<s>>) : s \in BadStmts}
    \cup {DocOf(<<SVarDecl(NameNode("x")), s>>) : s \in BadStmts}

EvalDocs == {DocOf(<<s>>) : s \in OtherEvals}

Docs == ValidDocs \cup InvalidDocs \cup EvalDocs

(***************************************************************************)
(* Initial states.                                                         *)
(***************************************************************************)
Empty == [k \in {} |-> 0]

MMInit == counter = -1 /\ tac = <<>> /\ mvars = Empty /\ prgm = <<>>

EmitInit ==
    /\ temps = Empty /\ asm = <<>> /\ refs = <<>> /\ done = <<>>
    /\ err = "none" /\ aout = <<>> /\ stdout = <<>>

RunIdle == regs = Empty /\ mem = Empty /\ pc = 0 /\ mem0 = Empty /\ sp0 = 0

DecIdle == doc = JList(<<>>) /\ outcome = Raise("idle")

(***************************************************************************)
(* Actions.                                                                *)
(***************************************************************************)
MMState == [counter |-> counter, tac |-> tac, vars |-> mvars, target |-> "", list |-> <<>>]

EmitState == [temps |-> temps, asm |-> asm, refs |-> refs, ret |-> ""]

\* MM.for_program: one iteration of its loop
ForStatement ==
    \E stmt \in Statements :
        /\ Len(prgm) < MaxStmts
        /\ done = <<>> /\ err = "none" /\ stdout = <<>>
        /\ Declared(stmt)
        /\ LET m == for_statement(MMState, stmt)
           IN  /\ counter' = m.counter
               /\ tac' = m.tac
               /\ mvars' = m.vars
        /\ prgm' = Append(prgm, stmt)
        /\ UNCHANGED <<emitVars, runVars, decVars>>

\* one iteration of the loop of tac2arm's _main: emitter(instr)
Emit(instr) ==
    /\ err = "none" /\ stdout = <<>>
    /\ LET r == Call(EmitState, instr)
       IN  /\ err' = r.exc
           /\ temps' = r.e.temps
           /\ asm' = r.e.asm
           /\ refs' = r.e.refs
           /\ done' = IF r.exc = "none" THEN Append(done, instr) ELSE done
    /\ UNCHANGED <<aout, stdout, mmVars, runVars, decVars>>

\* the body is the one bxc wrote: [x.tojson() for x in tac]
EmitTac ==
    /\ Len(done) < Len(tac)
    /\ Emit(tojson(tac[Len(done) + 1]))

\* the body is any interchange document
EmitInstr ==
    \E instr \in Instrs :
        /\ Len(done) < MaxInstrs
        /\ Emit(instr)

\* the prints of tac2arm's _main after its loop
MainPrint ==
    /\ err = "none" /\ stdout = <<>>
    /\ aout' = code(EmitState)
    /\ stdout' = <<<<".text">>, <<".global", "_main">>, <<".align", "4">>, <<>>,
                   <<"_main:">>, <<".cfi_startproc">>,
                   <<"stp", "X29", "X30", "[SP, #-16]!">>>>
                  \o aout'
                  \o <<<<"ldp", "X29", "X30", "[SP]", "#16">>, <<"ret">>,
                       <<".cfi_endproc">>, <<>>, <<".data">>, <<"l._dformat:">>,
                       <<".asciz", "\"%d\\n\"">>>>
    /\ UNCHANGED <<temps, asm, refs, done, err, mmVars, runVars, decVars>>

MainPrintTac == Len(done) = Len(tac) /\ MainPrint

\* the instructions of SpecRun: a mod whose operands and result may coincide
ModInstrs ==
    {Instr("mod", <<a[1], a[2]>>, <<a[3]>>) :
        a \in {<<T0, T1, T2>>, <<T0, T1, T0>>, <<T0, T1, T1>>, <<T0, T0, T1>>}}

EmitMod ==
    \E instr \in ModInstrs :
        /\ done = <<>>
        /\ Emit(instr)

MainPrintRun == done # <<>> /\ MainPrint

\* _main is called: SP is the caller's, the frame holds whatever was there
Enter ==
    /\ aout # <<>> /\ pc = 0
    /\ \E content \in [{StackTop - Reserved + 8 * i : i \in 0..(Len_(temps) - 1)} -> Words] :
            /\ mem' = content
            /\ mem0' = content
    /\ regs' = [r \in {"X0", "X1", "X2", "X29", "X30", "SP"} |->
                    IF r = "SP" THEN StackTop ELSE 0]
    /\ sp0' = StackTop
    /\ pc' = 1
    /\ UNCHANGED <<mmVars, emitVars, decVars>>

\* the machine executes the next line of code()
Step ==
    /\ pc \in 1..Len(aout)
    /\ LET m == Exec([regs |-> regs, mem |-> mem], aout[pc])
       IN  regs' = m.regs /\ mem' = m.mem
    /\ pc' = pc + 1
    /\ UNCHANGED <<mem0, sp0, mmVars, emitVars, decVars>>

\* the instructions of SpecFrame
FrameInstrs ==
    {Instr("const", <<"1">>, <<T0>>), Instr("copy", <<T0>>, <<T1>>),
     Instr("add", <<T0, T1>>, <<T2>>), Instr("mod", <<T1, T0>>, <<T0>>),
     Instr("print", <<T0>>, None), Instr("print", <<T1>>, None)}

EmitFrame ==
    \E instr \in FrameInstrs :
        /\ Len(done) < MaxFrameInstrs
        /\ Emit(instr)

\* the lines of the procedure _main prints, from its label to its ret
Text == IF stdout = <<>> THEN <<>> ELSE SubSeq(stdout, 7, Len(aout) + 8)

\* SP after the stp of _main and the prologue of code()
FrameBase == sp0 - 16 - Reserved

\* _main is called with an aligned or a misaligned stack pointer; the slots
\* hold whatever was there
EnterMain ==
    /\ stdout # <<>> /\ pc = 0
    /\ \E sp \in {StackTop, StackTop + 8} :
        \E content \in [{sp - 16 - Reserved + 8 * i : i \in 0..(Len_(temps) - 1)} -> Junk] :
            /\ mem' = content
            /\ mem0' = content
            /\ sp0' = sp
            /\ regs' = [r \in {"X0", "X1", "X2", "X29", "X30", "SP"} |->
                            IF r = "SP" THEN sp ELSE 0]
    /\ pc' = 1
    /\ UNCHANGED <<mmVars, emitVars, decVars>>

\* the machine executes the next line of _main; _printf returns with the
\* caller-saved registers holding anything
StepMain ==
    /\ pc \in 1..Len(Text)
    /\ \E c \in Junk :
        LET m == Exec([regs |-> regs, mem |-> mem], Text[pc])
        IN  /\ regs' = IF Text[pc][1] = "bl"
                          THEN [r \in DOMAIN m.regs |->
                                    IF r \in {"X0", "X1", "X2"} THEN c ELSE m.regs[r]]
                          ELSE m.regs
            /\ mem' = m.mem
    /\ pc' = pc + 1
    /\ UNCHANGED <<mem0, sp0, mmVars, emitVars, decVars>>

\* bxc's _main: prgm = bxprogram_of_json(data)
Decode ==
    /\ outcome.exc = "pending"
    /\ outcome' = bxprogram_of_json(doc)
    /\ UNCHANGED <<doc, mmVars, emitVars, runVars>>

(***************************************************************************)
(* Specifications.                                                         *)
(***************************************************************************)
\* bxc lowers a Program and tac2arm assembles the TAC it wrote
InitMM == MMInit /\ EmitInit /\ RunIdle /\ DecIdle

NextMM == ForStatement \/ EmitTac \/ MainPrintTac

SpecMM == InitMM /\ [][NextMM]_vars

\* tac2arm assembles any interchange document
NextEmit == EmitInstr \/ MainPrint

SpecEmit == InitMM /\ [][NextEmit]_vars

\* tac2arm assembles one mod instruction and the machine runs the code
NextRun == EmitMod \/ MainPrintRun \/ Enter \/ Step

SpecRun == InitMM /\ [][NextRun]_vars

\* tac2arm assembles a few instructions and the machine runs the procedure
NextFrame == EmitFrame \/ MainPrint \/ EnterMain \/ StepMain

SpecFrame == InitMM /\ [][NextFrame]_vars

\* bxc decodes a JSON document
InitDecode ==
    /\ MMInit /\ EmitInit /\ RunIdle
    /\ doc \in Docs
    /\ outcome = Raise("pending")

NextDecode == Decode

SpecDecode == InitDecode /\ [][NextDecode]_vars

(***************************************************************************)
(* Properties of maximal munch (SpecMM).                                   *)
(***************************************************************************)
IsTemp(s) == \E n \in 0..(counter + MaxTemp + 1) : s = Temp(n)

SameResult(i, j) == tac[i].result # None /\ tac[i].result = tac[j].result

\* C1 as stated: every temporary that is the result of some instruction of the
\* TAC sequence is the result of exactly one instruction of the sequence.
C1_SingleAssignment ==
    \A i, j \in DOMAIN tac : SameResult(i, j) => i = j

\* C1 as amended: the result of every instruction other than a copy (the
\* temporaries minted for Int and OpApp expressions) is the result of exactly
\* one instruction; two instructions with the same result are both the copy
\* of an Assign.
C1_SingleAssignmentOfExpressions ==
    \A i, j \in DOMAIN tac :
        SameResult(i, j) /\ i # j => tac[i].opcode = "copy" /\ tac[j].opcode = "copy"

\* a variable was assigned twice, from expressions that minted temporaries
C1_Witness ==
    /\ \E i, j \in DOMAIN tac : i # j /\ SameResult(i, j)
    /\ \E i, j \in DOMAIN tac : i # j /\ tac[i].opcode = "const" /\ tac[j].opcode = "const"
                                 /\ tac[i].result # None /\ tac[j].result # None

\* C2: every temporary among the arguments of the instruction at position i
\* is the result of an instruction at a position j < i.
C2_DefBeforeUse ==
    \A i \in DOMAIN tac : \A k \in DOMAIN tac[i].arguments :
        IsTemp(tac[i].arguments[k]) =>
            \E j \in 1..(i - 1) : tac[j].result = <<tac[i].arguments[k]>>

\* C8: the emitter accepts every instruction maximal munch emits, the unary
\* neg and not included: it never ends with an exception on the TAC of a Program.
C8_MunchOutputAccepted == err = "none"

(***************************************************************************)
(* Properties of the emitter (SpecEmit).                                   *)
(***************************************************************************)
\* the temporaries the instructions accepted so far reference
Operands(instr) == {(instr.args \o instr.result)[k] : k \in 1..Len(instr.args \o instr.result)}

Referenced == {s \in UNION {Operands(done[i]) : i \in DOMAIN done} : IsTemp(s)}

\* the number of distinct temporaries referenced before the first reference of t
FirstRef(t) == CHOOSE i \in DOMAIN refs : refs[i][1] = t /\ \A j \in 1..(i - 1) : refs[j][1] # t

Rank(t) == Cardinality({refs[j][1] : j \in 1..(FirstRef(t) - 1)})

\* C3: after any sequence of instructions that references k distinct
\* temporaries, exactly k slots are allocated, the slot map is a bijection onto
\* 0..k-1, slots are numbered in the order of first reference, and every
\* reference of a temporary, early or late, addresses offset 8*slot from SP.
C3_SlotCorrectness ==
    LET k == Cardinality(Referenced)
    IN  /\ DOMAIN temps = Referenced
        /\ {temps[t] : t \in DOMAIN temps} = 0..(k - 1)
        /\ \A t, u \in DOMAIN temps : temps[t] = temps[u] => t = u
        /\ \A t \in DOMAIN temps : temps[t] = Rank(t)
        /\ \A i \in DOMAIN refs :
                refs[i][2] = "[SP, #" \o ToStr(8 * Rank(refs[i][1])) \o "]"

\* three temporaries hold slots and one of them was referenced again later
C3_Witness ==
    /\ Cardinality(DOMAIN temps) = 3
    /\ \E i, j \in DOMAIN refs : i < j /\ refs[i][1] = refs[j][1] /\ temps[refs[i][1]] = 1

\* C4: code() reserves exactly 8 * round_up_to_even(k) bytes for k
\* temporaries, a multiple of 16 that covers every allocated slot, and
\* releases the same amount in the epilogue.
C4_FrameSize ==
    aout # <<>> =>
        LET k == Len_(temps)
        IN  /\ aout[1] = <<"sub", "SP", "SP", aout[1][4]>>
            /\ aout[Len(aout)] = <<"add", "SP", "SP", aout[1][4]>>
            /\ Reserved = 8 * (2 * ((k + 1) \div 2))
            /\ Reserved % 16 = 0
            /\ Reserved >= 8 * k
            /\ \A t \in DOMAIN temps : 8 * temps[t] + 8 <= Reserved
            /\ Released = Reserved
            /\ Len(aout) = Len(asm) + 2

\* code() ran for an odd number of temporaries
C4_Witness == aout # <<>> /\ Len_(temps) = 3

Documented == {"const", "copy", "add", "sub", "mul", "div", "mod", "and", "or",
               "xor", "shl", "shr", "neg", "not", "print"}

\* C5: an instruction whose opcode is outside the documented set is never
\* accepted (the emitter lowers documented opcodes only), and once the emitter
\* has failed no assembly text is produced for the procedure.
C5_UndocumentedRejected ==
    /\ \A i \in DOMAIN done : done[i].opcode \in Documented
    /\ err # "none" => aout = <<>> /\ stdout = <<>>

(***************************************************************************)
(* Properties of the emitted code when it runs (SpecRun).                  *)
(***************************************************************************)
Finished == pc = Len(aout) + 1

SlotAddr(t) == StackTop - Reserved + 8 * temps[t]

\* the remainder of the division that truncates: the r of the dividend's sign
\* with |r| < |b| and a - r a multiple of b
TruncRem(a, b) ==
    CHOOSE r \in (-Abs(b))..Abs(b) :
        /\ Abs(r) < Abs(b)
        /\ \E q \in (-Abs(a))..Abs(a) : a = q * b + r
        /\ r = 0 \/ (r < 0) = (a < 0)

\* C9: for mod (a,b) -> t and every pair of words a and b # 0 in the slots of
\* the operands, the emitted sequence leaves a - trunc(a/b)*b in the slot of t
\* and leaves the slots of a and b as they were when t is another temporary.
C9_ModLowering ==
    Finished =>
        LET a == mem0[SlotAddr(done[1].args[1])]
            b == mem0[SlotAddr(done[1].args[2])]
            t == done[1].result[1]
        IN  b # 0 =>
              /\ mem[SlotAddr(t)] = TruncRem(a, b)
              /\ \A u \in DOMAIN temps : u # t => mem[SlotAddr(u)] = mem0[SlotAddr(u)]

\* the code ran for a negative dividend with a non-zero remainder, the result
\* in a third temporary
C9_Witness ==
    /\ Finished
    /\ done[1] = Instr("mod", <<T0, T1>>, <<T2>>)
    /\ mem0[SlotAddr(T0)] = -3 /\ mem0[SlotAddr(T1)] = 2
    /\ mem[SlotAddr(T2)] = -1

(***************************************************************************)
(* Properties of the interchange form (SpecMM).                            *)
(***************************************************************************)
\* C10: every instruction maximal munch constructs reads back from its
\* interchange form as itself, arguments and result as they were split, and
\* every interchange instruction the emitter read writes back as itself.
C10_RoundTrip ==
    /\ \A i \in DOMAIN tac : decode(tojson(tac[i])) = tac[i]
    /\ \A i \in DOMAIN done : tojson(decode(done[i])) = done[i]

(***************************************************************************)
(* Properties of the decoder (SpecDecode).                                 *)
(***************************************************************************)
Decoded == outcome.exc # "pending"

\* C6: a document that breaks the documented shape (no ast key, no body, a
\* name node without value, an unknown kind, a malformed tag) fails to decode
\* with InvalidBXJSon and with no other exception, and no Program is returned.
C6_InvalidRaisesInvalidBXJSon ==
    Decoded /\ doc \in InvalidDocs =>
        outcome.exc = "InvalidBXJSon" /\ outcome.val = <<>>

\* C7: a document whose one statement is an eval node decodes only when the
\* node is a call of print with exactly one argument, and then to the Print
\* of that argument; every other eval node fails to decode.
C7_EvalOnlyPrintOfOne ==
    Decoded =>
        /\ doc \in EvalDocs => outcome.exc # "none"
        /\ \A e \in GoodExprs :
                doc = DocOf(<<SEval(ECall(NameNode("print"), <<e>>))>>) =>
                    /\ outcome.exc = "none"
                    /\ outcome.val =
                          <<PrintStatement(ExpressionOf(e).val)>>

(***************************************************************************)
(* Order of the lowering of an OpApp (SpecMM).                             *)
(***************************************************************************)
Mnemonics == {OPCODES[op] : op \in DOMAIN OPCODES}

TempNum(s) == CHOOSE n \in 0..counter : s = Temp(n)

\* the instruction at j minted the k-th argument of the instruction at i: it
\* is the const or the operator instruction of that operand
Mints(j, i, k) ==
    /\ tac[j].opcode \in Mnemonics \cup {"const"}
    /\ tac[j].result = <<tac[i].arguments[k]>>

\* the instructions of the operands precede the combining instruction, and
\* the operands were lowered left to right
OperandsFirst ==
    \A i \in DOMAIN tac : tac[i].opcode \in Mnemonics =>
        /\ \A k \in DOMAIN tac[i].arguments : \A j \in DOMAIN tac :
                Mints(j, i, k) => j < i
        /\ \A j1, j2 \in DOMAIN tac :
                Len(tac[i].arguments) = 2 /\ Mints(j1, i, 1) /\ Mints(j2, i, 2) =>
                    /\ j1 < j2
                    /\ TempNum(tac[i].arguments[1]) < TempNum(tac[i].arguments[2])

\* C11 as stated: the operands' instructions precede the combining
\* instruction, in left-to-right order, and the result temporary of an OpApp
\* is numbered after every temporary minted for its operands.
C11_ResultNumberedLast ==
    /\ OperandsFirst
    /\ \A i \in DOMAIN tac : tac[i].opcode \in Mnemonics =>
            \A k \in DOMAIN tac[i].arguments : \A j \in DOMAIN tac :
                Mints(j, i, k) =>
                    TempNum(tac[i].result[1]) > TempNum(tac[i].arguments[k])

\* C11 as amended: the result temporary is allocated first, so it is numbered
\* before every temporary minted for the operands; the operands are then
\* lowered left to right and their instructions precede the combining one.
C11_ResultNumberedFirst ==
    /\ OperandsFirst
    /\ \A i \in DOMAIN tac : tac[i].opcode \in Mnemonics =>
            \A k \in DOMAIN tac[i].arguments : \A j \in DOMAIN tac :
                Mints(j, i, k) =>
                    TempNum(tac[i].result[1]) < TempNum(tac[i].arguments[k])

\* an OpApp whose two operands are themselves OpApps was lowered
C11_Witness ==
    \E i, j1, j2 \in DOMAIN tac :
        /\ tac[i].opcode = "sub"
        /\ tac[j1].opcode = "neg" /\ Mints(j1, i, 1)
        /\ tac[j2].opcode = "mod" /\ Mints(j2, i, 2)

----------------------------------------------------------------------------
\* Stack discipline of the print sequence (SpecFrame)

\* the line loads or stores a slot: ldr/str with the operand [SP, #n]
IsSlotAccess(line) ==
    /\ Len(line) = 3
    /\ line[1] \in {"ldr", "str"}
    /\ \E n \in Offsets : line[3] = "[SP, #" \o ToStr(n) \o "]"

\* the positions in Text of the calls to the output routine
Calls == {i \in 1..Len(Text) : Text[i][1] = "bl"}

\* C12: in the procedure _main prints, each print sequence loads its operand
\* from its slot before it moves SP and leaves SP where it found it, so every
\* slot load or store executes with SP at the frame base of the prologue, and
\* SP is 16-byte aligned at each call to the output routine when it was
\* 16-byte aligned at the entry of the procedure.
C12_PrintBalanced ==
    /\ \A i \in Calls :
            /\ i > 5 /\ i + 2 <= Len(Text)
            /\ IsSlotAccess(Text[i - 5]) /\ Text[i - 5][1] = "ldr"
            /\ Text[i - 4][1] = "stp"
    /\ pc \in 1..Len(Text) =>
            /\ IsSlotAccess(Text[pc]) => regs["SP"] = FrameBase
            /\ pc \in Calls => (sp0 % 16 = 0 => regs["SP"] % 16 = 0)
            /\ (pc - 3) \in Calls => regs["SP"] = FrameBase

\* a print has returned and the next instruction is about to access its slot
C12_Witness ==
    /\ pc \in 1..Len(Text)
    /\ (pc - 3) \in Calls
    /\ IsSlotAccess(Text[pc])
    /\ sp0 % 16 = 0
    /\ regs["SP"] = FrameBase

============================================================================
